---------------------------- MODULE Spec2Model ----------------------------
(***************************************************************************)
(* Model of app.py of Auto-PPT-Generator: the outline generator            *)
(* (generate_slide_content), the presentation renderer                     *)
(* (create_presentation) and the Streamlit handler of the generate button. *)
(*                                                                         *)
(* Python values are modelled as tagged records (field k is the Python     *)
(* type), so that the truthiness tests and the .get(key, default) calls of *)
(* the source are computed, not assumed.                                   *)
(***************************************************************************)
EXTENDS Integers, Sequences, FiniteSets, TLC

(* ----------------------------- bounds --------------------------------- *)
MaxSlides == 2
MaxContent == 2
MaxTemplateSlides == 1
NumSessions == 2

(* ------------------------- generic helpers ---------------------------- *)
SeqsUpTo(S, n) == UNION {[1..m -> S] : m \in 0..n}

(* ------------------------ JSON / Python values ------------------------ *)
(* A title value of a slide entry: a str, or a value that is not a str.   *)
StrTitle(s) == [k |-> "str", s |-> s]
NumTitle == [k |-> "num", s |-> ""]

(* A content value of a slide entry: a list of str, null, or a number.    *)
ListContent(items) == [k |-> "list", items |-> items]
NullContent == [k |-> "null", items |-> <<>>]
NumContent == [k |-> "num", items |-> <<>>]

(* A slide entry: a JSON object with optional "title" and "content" keys, *)
(* or a value that is no object (a JSON string).                          *)
DictEntry(hasTitle, title, hasContent, content) ==
    [k |-> "dict", hasTitle |-> hasTitle, title |-> title,
     hasContent |-> hasContent, content |-> content]
StrEntry == [k |-> "str", hasTitle |-> FALSE, title |-> StrTitle(""),
             hasContent |-> FALSE, content |-> ListContent(<<>>)]

(* The value under "slides": a list of entries, null, or a number.        *)
ListSlides(items) == [k |-> "list", items |-> items]
NullSlides == [k |-> "null", items |-> <<>>]
NumSlides == [k |-> "num", items |-> <<>>]

(* A parsed reply (the value json.loads returns).  Python's None and the  *)
(* JSON null are the same value, k = "null".  A dict may hold the key     *)
(* "slides" and may hold other keys.                                      *)
Scalar(k) == [k |-> k, hasSlides |-> FALSE, slides |-> ListSlides(<<>>), other |-> FALSE]
None == Scalar("null")
Dict(hasSlides, slides, other) ==
    [k |-> "dict", hasSlides |-> hasSlides, slides |-> slides, other |-> other]

FalsyKinds == {"null", "false", "zero", "emptystr", "emptylist"}
TruthyKinds == {"true", "num", "str", "list"}

(* Python truthiness of a parsed reply (app.py line 164: if llm_output).  *)
Truthy(v) ==
    IF v.k = "dict" THEN v.hasSlides \/ v.other
    ELSE v.k \in TruthyKinds

(* Python truthiness of content_items (app.py line 101).                  *)
TruthyContent(c) ==
    IF c.k = "list" THEN c.items # <<>>
    ELSE c.k = "num"

(* ------------------------ documents and templates --------------------- *)
(* A slide: its title placeholder (idx 0) and its placeholder with idx 1, *)
(* each present or not; the body holds the texts of its paragraphs.       *)
Slide(hasTitle, title, hasBody, paras) ==
    [hasTitle |-> hasTitle, title |-> title, hasBody |-> hasBody, paras |-> paras]

OldSlide == Slide(TRUE, "old", TRUE, <<"old">>)

(* A layout: whether it has a title placeholder, whether it has a         *)
(* placeholder with idx 1, and the paragraphs a placeholder cloned from   *)
(* it starts with.                                                        *)
Layout(hasTitle, hasBody, dflt) ==
    [hasTitle |-> hasTitle, hasBody |-> hasBody, dflt |-> dflt]

(* prs.slides.add_slide(layout): the new slide with cloned placeholders.  *)
add_slide(layout) ==
    Slide(layout.hasTitle, "", layout.hasBody,
          IF layout.hasBody THEN layout.dflt ELSE <<>>)

(* Mutant: clear() leaves the paragraphs as they are.                     *)
tf_clear_noop(paras) == paras

(* text_frame.clear(): all paragraphs but the first are removed and the   *)
(* first is emptied.                                                      *)
tf_clear(paras) == <<"">>

(* p = tf.paragraphs[0]; p.text = s                                       *)
set_first_paragraph(paras, s) == [paras EXCEPT ![1] = s]

(* Mutant: the new paragraph is inserted before the existing ones.        *)
add_paragraph_front(paras, s) == <<s>> \o paras

(* p = tf.add_paragraph(); p.text = s                                     *)
add_paragraph(paras, s) == Append(paras, s)

(* for item in content_items[1:]: add a paragraph (lines 106-109).        *)
RECURSIVE add_remaining(_, _, _)
add_remaining(paras, items, i) ==
    IF i > Len(items) THEN paras
    ELSE add_remaining(add_paragraph(paras, items[i]), items, i + 1)

(* Mutant: slide_data.get('title'), which yields None (no str) for an     *)
(* entry without title.                                                   *)
get_title_strict(slide_data) ==
    IF slide_data.hasTitle THEN slide_data.title ELSE NumTitle

(* slide_data.get('title', '') and slide_data.get('content', []).         *)
get_title(slide_data) ==
    IF slide_data.hasTitle THEN slide_data.title ELSE StrTitle("")
get_content(slide_data) ==
    IF slide_data.hasContent THEN slide_data.content ELSE ListContent(<<>>)

(* Lines 85-87: the title step.  ok = FALSE is a raised exception.        *)
fill_title(slide, slide_data) ==
    IF ~slide.hasTitle THEN [ok |-> TRUE, slide |-> slide]
    ELSE IF slide_data.k # "dict" THEN [ok |-> FALSE, slide |-> slide]
    ELSE LET t == get_title(slide_data) IN
         IF t.k # "str" THEN [ok |-> FALSE, slide |-> slide]
         ELSE [ok |-> TRUE, slide |-> [slide EXCEPT !.title = t.s]]

(* Lines 89-109: the body step.                                           *)
fill_body(slide, slide_data) ==
    IF ~slide.hasBody THEN [ok |-> TRUE, slide |-> slide]
    ELSE LET cleared == [slide EXCEPT !.paras = tf_clear(slide.paras)] IN
         IF slide_data.k # "dict" THEN [ok |-> FALSE, slide |-> cleared]
         ELSE LET content_items == get_content(slide_data) IN
              IF ~TruthyContent(content_items) THEN [ok |-> TRUE, slide |-> cleared]
              ELSE IF content_items.k # "list" THEN [ok |-> FALSE, slide |-> cleared]
              ELSE [ok |-> TRUE,
                    slide |-> [cleared EXCEPT !.paras =
                        add_remaining(
                            set_first_paragraph(cleared.paras, content_items.items[1]),
                            content_items.items, 2)]]

(* Lines 83-109: the body of the loop for one slide_data.                 *)
render_slide(slide_data, layout) ==
    LET t == fill_title(add_slide(layout), slide_data) IN
    IF ~t.ok THEN t ELSE fill_body(t.slide, slide_data)

(* A template file: whether python-pptx can open it, how many layouts it  *)
(* has, the layout at position 1 and its pre-existing slides.             *)
Template(ok, nLayouts, layout, slides) ==
    [ok |-> ok, nLayouts |-> nLayouts, layout |-> layout, slides |-> slides]

(* Mutant: each new slide is inserted before the slides already there.    *)
RECURSIVE render_loop_front(_, _, _, _)
render_loop_front(slides, items, i, layout) ==
    IF i > Len(items) THEN [ok |-> TRUE, slides |-> slides]
    ELSE LET r == render_slide(items[i], layout) IN
         IF ~r.ok THEN [ok |-> FALSE, slides |-> <<r.slide>> \o slides]
         ELSE render_loop_front(<<r.slide>> \o slides, items, i + 1, layout)

(* Lines 82-109: the loop over the entries, appending to prs.slides.      *)
RECURSIVE render_loop(_, _, _, _)
render_loop(slides, items, i, layout) ==
    IF i > Len(items) THEN [ok |-> TRUE, slides |-> slides]
    ELSE LET r == render_slide(items[i], layout) IN
         IF ~r.ok THEN [ok |-> FALSE, slides |-> Append(slides, r.slide)]
         ELSE render_loop(Append(slides, r.slide), items, i + 1, layout)

(* llm_output_json.get('slides', [])                                      *)
get_slides(llm_output_json) ==
    IF llm_output_json.hasSlides THEN llm_output_json.slides ELSE ListSlides(<<>>)

(* Mutant: no except branch around the loop, the document built so far is *)
(* saved and returned.                                                    *)
create_presentation_partial(llm_output_json, template_file) ==
    IF ~template_file.ok THEN [ok |-> FALSE, doc |-> <<>>]
    ELSE IF template_file.nLayouts < 2 THEN [ok |-> FALSE, doc |-> <<>>]
    ELSE IF llm_output_json.k # "dict" THEN [ok |-> FALSE, doc |-> <<>>]
    ELSE LET sl == get_slides(llm_output_json) IN
         IF sl.k # "list" THEN [ok |-> FALSE, doc |-> <<>>]
         ELSE [ok |-> TRUE,
               doc |-> render_loop(template_file.slides, sl.items, 1, template_file.layout).slides]

(* create_presentation (lines 71-118).  ok = FALSE: the except branch     *)
(* (st.error and return None); ok = TRUE: the saved stream, whose slides  *)
(* are in doc.                                                            *)
Failed == [ok |-> FALSE, doc |-> <<>>]
create_presentation(llm_output_json, template_file) ==
    IF ~template_file.ok THEN Failed
    ELSE IF template_file.nLayouts < 2 THEN Failed
    ELSE IF llm_output_json.k # "dict" THEN Failed
    ELSE LET sl == get_slides(llm_output_json) IN
         IF sl.k # "list" THEN Failed
         ELSE LET r == render_loop(template_file.slides, sl.items, 1, template_file.layout) IN
              IF ~r.ok THEN Failed ELSE [ok |-> TRUE, doc |-> r.slides]


(* ------------------------------ inputs -------------------------------- *)
Items == {"", "a", "b"}

TitleOpts ==
    {[has |-> FALSE, v |-> StrTitle("")]}
    \cup {[has |-> TRUE, v |-> t] : t \in {StrTitle("T"), NumTitle}}

ContentOpts(lists) ==
    {[has |-> FALSE, v |-> ListContent(<<>>)]}
    \cup {[has |-> TRUE, v |-> c] :
            c \in {NullContent, NumContent} \cup {ListContent(l) : l \in lists}}

Entries(lists) ==
    {DictEntry(t.has, t.v, c.has, c.v) : t \in TitleOpts, c \in ContentOpts(lists)}
    \cup {StrEntry}

(* Entries of the single-slide specification: every content list up to    *)
(* MaxContent over Items.                                                 *)
SlideEntries == Entries(SeqsUpTo(Items, MaxContent))

(* Entries of the outlines: three content lists.                          *)
OutlineEntries == Entries({<<>>, <<"a">>, <<"a", "b">>})

DefaultParas == {<<"">>, <<"dflt">>, <<"dflt", "dflt2">>}

Layouts ==
    {Layout(ht, FALSE, <<>>) : ht \in BOOLEAN}
    \cup {Layout(ht, TRUE, d) : ht \in BOOLEAN, d \in DefaultParas}

NoLayout == Layout(FALSE, FALSE, <<>>)

OldSlides == {[i \in 1..n |-> OldSlide] : n \in 0..MaxTemplateSlides}

(* Templates: one python-pptx cannot open, one with a single layout, and  *)
(* the templates with a layout at position 1.                             *)
BrokenTemplate == Template(FALSE, 0, NoLayout, <<>>)
OneLayoutTemplate == Template(TRUE, 1, NoLayout, <<>>)
GoodTemplates == {Template(TRUE, 2, l, sl) : l \in Layouts, sl \in OldSlides}
Templates == {BrokenTemplate, OneLayoutTemplate} \cup GoodTemplates

(* Parsed replies: the falsy values, the truthy values that are no        *)
(* object, and the objects with or without the "slides" key.              *)
Outlines == {Dict(TRUE, ListSlides(es), FALSE) : es \in SeqsUpTo(OutlineEntries, MaxSlides)}

OddJson ==
    {Scalar(k) : k \in FalsyKinds \cup TruthyKinds}
    \cup {Dict(FALSE, ListSlides(<<>>), FALSE), Dict(FALSE, ListSlides(<<>>), TRUE),
          Dict(TRUE, NullSlides, FALSE), Dict(TRUE, NumSlides, TRUE)}

JsonValues == OddJson \cup Outlines

(* ------------------------------ state --------------------------------- *)
Sessions == 1..NumSessions

VARIABLES
    (* one run of render_slide *)
    s_pc, slide_data, s_layout, s_result,
    (* one run of create_presentation *)
    r_pc, r_outline, r_template, r_result, r_errors,
    (* the Streamlit sessions, each running the script of app.py *)
    pc, raw_text, api_key, uploaded_template, reply, llm_output, used_key,
    msgs, download, gen_calls, render_calls,
    (* the module attribute openai.api_key, one per process *)
    openai_api_key

slideVars == <<s_pc, slide_data, s_layout, s_result>>
renderVars == <<r_pc, r_outline, r_template, r_result, r_errors>>
appVars == <<pc, raw_text, api_key, uploaded_template, reply, llm_output, used_key,
             msgs, download, gen_calls, render_calls, openai_api_key>>
vars == <<slideVars, renderVars, appVars>>

NoResult == [ok |-> FALSE, slide |-> add_slide(NoLayout)]
NoUpload == [present |-> FALSE, file |-> BrokenTemplate]
NoReply == [kind |-> "none", val |-> None]
NoDownload == [offered |-> FALSE, doc |-> <<>>]

SlideOff ==
    /\ s_pc = "off" /\ slide_data = StrEntry /\ s_layout = NoLayout /\ s_result = NoResult

RenderOff ==
    /\ r_pc = "off" /\ r_outline = None /\ r_template = BrokenTemplate
    /\ r_result = Failed /\ r_errors = <<>>

AppIdle ==
    /\ pc = [s \in Sessions |-> "idle"]
    /\ raw_text = [s \in Sessions |-> ""]
    /\ api_key = [s \in Sessions |-> ""]
    /\ uploaded_template = [s \in Sessions |-> NoUpload]
    /\ reply = [s \in Sessions |-> NoReply]
    /\ llm_output = [s \in Sessions |-> None]
    /\ used_key = [s \in Sessions |-> ""]
    /\ msgs = [s \in Sessions |-> <<>>]
    /\ download = [s \in Sessions |-> NoDownload]
    /\ gen_calls = [s \in Sessions |-> 0]
    /\ render_calls = [s \in Sessions |-> 0]
    /\ openai_api_key = ""

(* ---------------- specification of one slide (lines 83-109) ----------- *)
InitSlide ==
    /\ s_pc = "start"
    /\ slide_data \in SlideEntries
    /\ s_layout \in Layouts
    /\ s_result = NoResult
    /\ RenderOff
    /\ AppIdle

RenderSlide ==
    /\ s_pc = "start"
    /\ s_result' = render_slide(slide_data, s_layout)
    /\ s_pc' = "done"
    /\ UNCHANGED <<slide_data, s_layout, renderVars, appVars>>

NextSlide == RenderSlide

SpecSlide == InitSlide /\ [][NextSlide]_vars

(* ------------- specification of create_presentation (71-118) ---------- *)
ErrRender == "Failed to create presentation file"

InitRender ==
    /\ r_pc = "start"
    /\ r_outline \in JsonValues
    /\ r_template \in Templates
    /\ r_result = Failed
    /\ r_errors = <<>>
    /\ SlideOff
    /\ AppIdle

CreatePresentation ==
    /\ r_pc = "start"
    /\ r_result' = create_presentation(r_outline, r_template)
    /\ r_errors' = IF r_result'.ok THEN r_errors ELSE Append(r_errors, ErrRender)
    /\ r_pc' = "done"
    /\ UNCHANGED <<r_outline, r_template, slideVars, appVars>>

NextRender == CreatePresentation

SpecRender == InitRender /\ [][NextRender]_vars


(* ------------------- properties of the renderer ----------------------- *)
(* What an entry asks for, read off the entry itself.                     *)
EntryTitle(e) == IF e.hasTitle THEN e.title.s ELSE ""
EntryItems(e) == IF e.hasContent /\ e.content.k = "list" THEN e.content.items ELSE <<>>

(* An entry of the documented shape: an object whose title, when present, *)
(* is a string and whose content, when present, is a list (or null).      *)
WellTypedEntry(e) ==
    /\ e.k = "dict"
    /\ e.hasTitle => e.title.k = "str"
    /\ e.hasContent => e.content.k \in {"list", "null"}

IsOutline(v) ==
    /\ v.k = "dict" /\ v.hasSlides /\ v.slides.k = "list"
    /\ \A i \in 1..Len(v.slides.items) : WellTypedEntry(v.slides.items[i])

(* The entry makes the loop body raise on a slide of this layout.         *)
EntryRaises(e, layout) ==
    \/ layout.hasTitle /\ (e.k # "dict" \/ (e.hasTitle /\ e.title.k # "str"))
    \/ layout.hasBody /\ (e.k # "dict" \/ (e.hasContent /\ e.content.k = "num"))

(* C6: for an outline with N entries and a template whose layout at       *)
(* position 1 has a title and a body placeholder, create_presentation     *)
(* returns a document with the template's slides, unchanged, followed by  *)
(* exactly N new slides in outline order.                                 *)
C6_SlidesAppended ==
    (/\ r_pc = "done"
     /\ IsOutline(r_outline)
     /\ r_template \in GoodTemplates
     /\ r_template.layout.hasTitle /\ r_template.layout.hasBody)
    => LET T == Len(r_template.slides)
           es == r_outline.slides.items
           doc == r_result.doc
       IN /\ r_result.ok
          /\ Len(doc) = T + Len(es)
          /\ \A i \in 1..T : doc[i] = r_template.slides[i]
          /\ \A i \in 1..Len(es) :
                /\ doc[T + i].title = EntryTitle(es[i])
                /\ doc[T + i].paras =
                      IF EntryItems(es[i]) = <<>> THEN <<"">> ELSE EntryItems(es[i])

C6_Witness ==
    /\ r_pc = "done"
    /\ IsOutline(r_outline)
    /\ r_template \in GoodTemplates
    /\ r_template.layout.hasTitle /\ r_template.layout.hasBody
    /\ Len(r_template.slides) >= 1
    /\ Len(r_outline.slides.items) >= 2
    /\ r_outline.slides.items[1] # r_outline.slides.items[2]
    /\ Len(r_result.doc) = Len(r_template.slides) + Len(r_outline.slides.items)

(* The title step of render_slide cannot raise for this entry.            *)
TitleFine == ~s_layout.hasTitle \/ ~slide_data.hasTitle \/ slide_data.title.k = "str"

(* C7: a content list of length K >= 1 on a slide with a body placeholder *)
(* leaves exactly K paragraphs in the body, paragraph i carrying          *)
(* content[i], whatever paragraphs the placeholder started with.          *)
C7_BodyParagraphs ==
    (/\ s_pc = "done"
     /\ s_layout.hasBody
     /\ slide_data.k = "dict" /\ slide_data.hasContent
     /\ slide_data.content.k = "list" /\ Len(slide_data.content.items) >= 1
     /\ TitleFine)
    => /\ s_result.ok
       /\ Len(s_result.slide.paras) = Len(slide_data.content.items)
       /\ \A i \in 1..Len(slide_data.content.items) :
             s_result.slide.paras[i] = slide_data.content.items[i]

C7_Witness ==
    /\ s_pc = "done"
    /\ s_layout.hasBody /\ Len(s_layout.dflt) >= 2
    /\ slide_data.k = "dict" /\ slide_data.hasContent
    /\ slide_data.content.k = "list" /\ Len(slide_data.content.items) >= 2
    /\ slide_data.content.items[1] # slide_data.content.items[2]
    /\ TitleFine
    /\ Len(s_result.slide.paras) >= 2

(* C8: an empty or absent content list on a slide with a body placeholder *)
(* leaves the body without text: nothing but the one empty paragraph a    *)
(* text frame always keeps.                                               *)
C8_EmptyBody ==
    (/\ s_pc = "done"
     /\ s_layout.hasBody
     /\ slide_data.k = "dict"
     /\ (~slide_data.hasContent \/ slide_data.content = ListContent(<<>>))
     /\ TitleFine)
    => /\ s_result.ok
       /\ Len(s_result.slide.paras) <= 1
       /\ \A i \in 1..Len(s_result.slide.paras) : s_result.slide.paras[i] = ""

C8_Witness ==
    /\ s_pc = "done"
    /\ s_layout.hasBody /\ s_layout.dflt = <<"dflt", "dflt2">>
    /\ slide_data.k = "dict" /\ ~slide_data.hasContent
    /\ TitleFine
    /\ s_result.ok

(* C10: a failed rendering (a template that cannot be opened, a template  *)
(* without a layout at position 1, an entry that raises after earlier     *)
(* slides were added) reports the one generic message and returns no      *)
(* document; a layout without the placeholder of index 1 is no failure,   *)
(* every entry then yields a slide with its title only.                   *)
C10_RenderFailure ==
    r_pc = "done" =>
    LET T == Len(r_template.slides)
        layout == r_template.layout
        listed == r_outline.k = "dict" /\ get_slides(r_outline).k = "list"
        es == get_slides(r_outline).items
    IN /\ ~r_result.ok => (r_result.doc = <<>> /\ r_errors = <<ErrRender>>)
       /\ r_result.ok => r_errors = <<>>
       /\ ~r_template.ok => ~r_result.ok
       /\ r_template.nLayouts < 2 => ~r_result.ok
       /\ (/\ r_template \in GoodTemplates /\ listed
           /\ \E k \in 1..Len(es) : EntryRaises(es[k], layout)) => ~r_result.ok
       /\ (/\ r_template \in GoodTemplates /\ listed /\ ~layout.hasBody
           /\ \A k \in 1..Len(es) : ~EntryRaises(es[k], layout))
          => /\ r_result.ok
             /\ Len(r_result.doc) = T + Len(es)
             /\ \A i \in 1..Len(es) :
                   r_result.doc[T + i] =
                      Slide(layout.hasTitle,
                            IF layout.hasTitle THEN EntryTitle(es[i]) ELSE "",
                            FALSE, <<>>)

C10_Witness ==
    /\ r_pc = "done"
    /\ r_template \in GoodTemplates
    /\ r_outline.k = "dict" /\ r_outline.hasSlides /\ r_outline.slides.k = "list"
    /\ Len(r_outline.slides.items) >= 2
    /\ ~EntryRaises(r_outline.slides.items[1], r_template.layout)
    /\ EntryRaises(r_outline.slides.items[2], r_template.layout)
    /\ ~r_result.ok /\ r_result.doc = <<>> /\ r_errors = <<ErrRender>>


(* ------------------ the handler of the generate button ---------------- *)
ErrText == "Please paste your text content in Step 1."
ErrKey == "Please enter your API key in Step 3."
ErrTemplate == "Please upload a PowerPoint template in Step 4."
ErrLLM == "An error occurred with the LLM API call"
OkContent == "Content structure generated!"
OkPresentation == "Presentation created!"

Errors == {ErrText, ErrKey, ErrTemplate, ErrLLM, ErrRender}

(* Mutant: the presence of the template is not validated.                 *)
validate_without_template(text, key, upload) ==
    IF text = "" THEN ErrText
    ELSE IF key = "" THEN ErrKey
    ELSE ""

(* Lines 154-159: the input validation; "" when every field is present.   *)
validate(text, key, upload) ==
    IF text = "" THEN ErrText
    ELSE IF key = "" THEN ErrKey
    ELSE IF ~upload.present THEN ErrTemplate
    ELSE ""

(* Mutant: a reply that does not parse yields an outline without slides   *)
(* instead of None.                                                       *)
parse_reply_lenient(rep) ==
    IF rep.kind = "json" THEN [out |-> rep.val, errors |-> <<>>]
    ELSE [out |-> Dict(TRUE, ListSlides(<<>>), FALSE), errors |-> <<ErrLLM>>]

(* Lines 55-69: the outcome of the call and of json.loads.  The reply is  *)
(* an exception of the call, a text json.loads rejects, or a JSON text.   *)
parse_reply(rep) ==
    IF rep.kind = "json" THEN [out |-> rep.val, errors |-> <<>>]
    ELSE [out |-> None, errors |-> <<ErrLLM>>]

(* Mutant: the renderer runs whatever generate_slide_content returned.    *)
after_generate_unguarded(out, upload) ==
    LET r == create_presentation(out, upload.file) IN
    IF r.ok THEN [msgs |-> <<OkContent, OkPresentation>>, rendered |-> 1,
                  download |-> [offered |-> TRUE, doc |-> r.doc]]
    ELSE [msgs |-> <<OkContent, ErrRender>>, rendered |-> 1, download |-> NoDownload]

(* Lines 164-178: what the handler does with the generator's result.      *)
after_generate(out, upload) ==
    IF ~Truthy(out) THEN [msgs |-> <<>>, rendered |-> 0, download |-> NoDownload]
    ELSE LET r == create_presentation(out, upload.file) IN
         IF r.ok THEN [msgs |-> <<OkContent, OkPresentation>>, rendered |-> 1,
                       download |-> [offered |-> TRUE, doc |-> r.doc]]
         ELSE [msgs |-> <<OkContent, ErrRender>>, rendered |-> 1, download |-> NoDownload]

(* The button is pressed with the widgets' values (lines 152-160).        *)
Submit(s, texts, keys, uploads) ==
    /\ pc[s] = "idle"
    /\ \E t \in texts, k \in keys, u \in uploads :
          LET m == validate(t, k, u) IN
          /\ raw_text' = [raw_text EXCEPT ![s] = t]
          /\ api_key' = [api_key EXCEPT ![s] = k]
          /\ uploaded_template' = [uploaded_template EXCEPT ![s] = u]
          /\ msgs' = [msgs EXCEPT ![s] = IF m = "" THEN <<>> ELSE <<m>>]
          /\ pc' = [pc EXCEPT ![s] = IF m = "" THEN "generate" ELSE "done"]
    /\ UNCHANGED <<reply, llm_output, used_key, download, gen_calls, render_calls,
                   openai_api_key, slideVars, renderVars>>

(* generate_slide_content is entered: openai.api_key = api_key (line 14). *)
SetApiKey(s) ==
    /\ pc[s] = "generate"
    /\ openai_api_key' = api_key[s]
    /\ gen_calls' = [gen_calls EXCEPT ![s] = @ + 1]
    /\ pc' = [pc EXCEPT ![s] = "call"]
    /\ UNCHANGED <<raw_text, api_key, uploaded_template, reply, llm_output, used_key,
                   msgs, download, render_calls, slideVars, renderVars>>

(* The request is made with the module's credential, and the reply is     *)
(* parsed (lines 55-69).                                                  *)
CallLLM(s, replies) ==
    /\ pc[s] = "call"
    /\ \E rep \in replies :
          LET g == parse_reply(rep) IN
          /\ reply' = [reply EXCEPT ![s] = rep]
          /\ llm_output' = [llm_output EXCEPT ![s] = g.out]
          /\ msgs' = [msgs EXCEPT ![s] = @ \o g.errors]
    /\ used_key' = [used_key EXCEPT ![s] = openai_api_key]
    /\ pc' = [pc EXCEPT ![s] = "returned"]
    /\ UNCHANGED <<raw_text, api_key, uploaded_template, download, gen_calls,
                   render_calls, openai_api_key, slideVars, renderVars>>

(* Lines 164-178: render and offer the download.                          *)
AfterGenerate(s) ==
    /\ pc[s] = "returned"
    /\ LET a == after_generate(llm_output[s], uploaded_template[s]) IN
          /\ msgs' = [msgs EXCEPT ![s] = @ \o a.msgs]
          /\ render_calls' = [render_calls EXCEPT ![s] = @ + a.rendered]
          /\ download' = [download EXCEPT ![s] = a.download]
    /\ pc' = [pc EXCEPT ![s] = "done"]
    /\ UNCHANGED <<raw_text, api_key, uploaded_template, reply, llm_output, used_key,
                   gen_calls, openai_api_key, slideVars, renderVars>>

(* The script run is over; the next run starts with fresh variables but   *)
(* in the same process.                                                   *)
Rerun(s) ==
    /\ pc[s] = "done"
    /\ pc' = [pc EXCEPT ![s] = "idle"]
    /\ raw_text' = [raw_text EXCEPT ![s] = ""]
    /\ api_key' = [api_key EXCEPT ![s] = ""]
    /\ uploaded_template' = [uploaded_template EXCEPT ![s] = NoUpload]
    /\ reply' = [reply EXCEPT ![s] = NoReply]
    /\ llm_output' = [llm_output EXCEPT ![s] = None]
    /\ used_key' = [used_key EXCEPT ![s] = ""]
    /\ msgs' = [msgs EXCEPT ![s] = <<>>]
    /\ download' = [download EXCEPT ![s] = NoDownload]
    /\ gen_calls' = [gen_calls EXCEPT ![s] = 0]
    /\ render_calls' = [render_calls EXCEPT ![s] = 0]
    /\ UNCHANGED <<openai_api_key, slideVars, renderVars>>

InitApp == SlideOff /\ RenderOff /\ AppIdle

(* ------------- specification of one session's actions ----------------- *)
Texts == {"", "Alpha. Beta. Gamma."}
Keys == {"", "sk-test"}
Uploads == {NoUpload} \cup {[present |-> TRUE, file |-> t] : t \in Templates}
Replies ==
    {[kind |-> "exception", val |-> None], [kind |-> "text", val |-> None]}
    \cup {[kind |-> "json", val |-> v] : v \in JsonValues}

NextApp ==
    \E s \in {1} :
        \/ Submit(s, Texts, Keys, Uploads)
        \/ SetApiKey(s)
        \/ CallLLM(s, Replies)
        \/ AfterGenerate(s)
        \/ Rerun(s)

SpecApp == InitApp /\ [][NextApp]_vars

(* ------------- specification of concurrent sessions ------------------- *)
SessionKeys == {"sk-one", "sk-two"}
SessionUploads ==
    {[present |-> TRUE,
      file |-> Template(TRUE, 2, Layout(TRUE, TRUE, <<"">>), <<>>)]}
SessionReplies ==
    {[kind |-> "exception", val |-> None],
     [kind |-> "json",
      val |-> Dict(TRUE, ListSlides(<<DictEntry(TRUE, StrTitle("T"), TRUE,
                                                ListContent(<<"a">>))>>), FALSE)]}

NextSessions ==
    \E s \in Sessions :
        \/ Submit(s, {"Alpha. Beta. Gamma."}, SessionKeys, SessionUploads)
        \/ SetApiKey(s)
        \/ CallLLM(s, SessionReplies)
        \/ AfterGenerate(s)
        \/ Rerun(s)

SpecSessions == InitApp /\ [][NextSessions]_vars


(* ------------------- properties of the handler ------------------------ *)
HasError(s) == \E i \in 1..Len(msgs[s]) : msgs[s][i] \in Errors

(* C1: in one action the generator runs at most once and the renderer at  *)
(* most once, the renderer only on the truthy value the generator         *)
(* returned from a parsed reply, and the download is offered only after   *)
(* both have succeeded.                                                   *)
C1_OnceInSequence ==
    \A s \in Sessions :
        /\ gen_calls[s] <= 1
        /\ render_calls[s] <= 1
        /\ render_calls[s] = 1 =>
              /\ gen_calls[s] = 1
              /\ reply[s].kind = "json"
              /\ llm_output[s] = reply[s].val
              /\ Truthy(llm_output[s])
        /\ download[s].offered =>
              /\ gen_calls[s] = 1 /\ render_calls[s] = 1
              /\ reply[s].kind = "json"
              /\ ~HasError(s)
              /\ msgs[s] = <<OkContent, OkPresentation>>

C1_Witness ==
    \E s \in Sessions :
        /\ pc[s] = "done"
        /\ download[s].offered
        /\ Len(download[s].doc) >= 2
        /\ gen_calls[s] = 1 /\ render_calls[s] = 1

(* The message of the first missing field, in the order of the checks.    *)
MissingMessage(s) ==
    IF raw_text[s] = "" THEN ErrText
    ELSE IF api_key[s] = "" THEN ErrKey
    ELSE ErrTemplate

(* C2: an action with a missing text, credential or template shows the    *)
(* message of the missing field and nothing else happens: no generator,   *)
(* no outbound call, no renderer, no download.                            *)
C2_MissingField ==
    \A s \in Sessions :
        (/\ pc[s] # "idle"
         /\ (raw_text[s] = "" \/ api_key[s] = "" \/ ~uploaded_template[s].present))
        => /\ pc[s] = "done"
           /\ msgs[s] = <<MissingMessage(s)>>
           /\ gen_calls[s] = 0 /\ render_calls[s] = 0
           /\ reply[s] = NoReply
           /\ ~download[s].offered

C2_Witness ==
    \E s \in Sessions :
        /\ pc[s] = "done"
        /\ raw_text[s] # "" /\ api_key[s] # "" /\ ~uploaded_template[s].present
        /\ msgs[s] = <<ErrTemplate>>

(* C3: every finished action has shown an error message or offered the    *)
(* download.                                                              *)
C3_VisibleOutcome ==
    \A s \in Sessions : pc[s] = "done" => (HasError(s) \/ download[s].offered)

(* The shape the prompt asks for: an object with a "slides" list whose    *)
(* entries are objects with a string "title" and a list "content".        *)
ExpectedShape(v) ==
    /\ v.k = "dict" /\ v.hasSlides /\ v.slides.k = "list"
    /\ \A i \in 1..Len(v.slides.items) :
          LET e == v.slides.items[i] IN
          /\ e.k = "dict"
          /\ e.hasTitle /\ e.title.k = "str"
          /\ e.hasContent /\ e.content.k = "list"

C5_NoSharedCredential ==
    \A s \in Sessions :
        /\ reply[s].kind # "none" => used_key[s] = api_key[s]
        /\ (pc[s] = "done" /\ api_key[s] # "") => openai_api_key # api_key[s]

(* C9: a failed call or a reply that is no JSON yields the error message  *)
(* and no outline, and the renderer is not invoked.                       *)
C9_NoOutlineOnFailure ==
    \A s \in Sessions :
        reply[s].kind \in {"exception", "text"}
        => /\ llm_output[s] = None
           /\ msgs[s] = <<ErrLLM>>
           /\ render_calls[s] = 0
           /\ ~download[s].offered

C9_Witness ==
    \E s \in Sessions :
        /\ pc[s] = "done"
        /\ reply[s].kind = "text"
        /\ msgs[s] = <<ErrLLM>>

=============================================================================
